---- MODULE Spec2Model ----
(***************************************************************************)
(* Model of flask_sqla_debug (FlaskSqlaDebug): per-request query           *)
(* accounting, threshold detection and the rate-limited stack dump.        *)
(*                                                                         *)
(* One FlaskSqlaDebug object is shared by the worker threads of the Flask  *)
(* application.  Each thread serves one request at a time; the request's   *)
(* dict g lives on the thread's application context.  The attributes       *)
(* last_stack_dump and global_stack_dumps live on the shared object and    *)
(* are read and written without any lock, so maybe_dump_stack is modelled  *)
(* one shared-memory access per step.                                      *)
(*                                                                         *)
(* Outside a request the thread has no application context: _get_g returns *)
(* None, the query hooks return at once, and maybe_dump_stack runs without *)
(* a dict.                                                                 *)
(*                                                                         *)
(* Times of queries are in units of 0.1 s; the wall clock of               *)
(* maybe_dump_stack is in units of 0.5 s (see Round).                      *)
(***************************************************************************)
EXTENDS Integers, Sequences, FiniteSets, TLC

\* ------------------------------------------------------------------ bounds
NumThreads == 2          \* worker threads of the concurrent specification
MaxTime == 2             \* last value of the wall clock, in half seconds
MaxQueryTime == 2        \* longest query, in 0.1 s
MaxQueryStart == 0       \* latest reading of before_cursor_execute_time, in 0.1 s
\* the one thread of the sequential specification, which serves one request
MaxQueries == 3          \* queries completed per request
MaxDepth == 2            \* deepest nesting of the dump scope
MaxStops == 1            \* unbalanced query_dump_stop calls per request
MaxHooks == 2            \* query hooks fired with no context, per idle period
MaxCalls == 1            \* maybe_dump_stack calls made with no context, after the request
\* each thread of the concurrent specification, which serves one request
ConcQueries == 1         \* queries completed per request
ConcDepth == 1           \* deepest nesting of the dump scope
ConcStops == 1           \* unbalanced query_dump_stop calls per request
ConcQueryStart == 0      \* latest reading of before_cursor_execute_time, in 0.1 s
ConcHooks == 1           \* query hooks fired with no context, per idle period
ConcCalls == 1           \* maybe_dump_stack calls made with no context, after the request

\* The configuration the model runs with (times in 0.1 s); the strict mode
\* FLASK_SQLA_DEBUG_THROW_EXCEPTION is either.
CfgMaxQueryCount == 2    \* FLASK_SQLA_DEBUG_MAX_QUERY_COUNT
CfgMaxSingle == 1        \* FLASK_SQLA_DEBUG_MAX_SINGLE_QUERY_SECONDS
CfgMaxTotal == 2         \* FLASK_SQLA_DEBUG_MAX_TOTAL_QUERY_SECONDS
CfgRequestStacks == 2    \* FLASK_SQLA_DEBUG_MAX_REQUEST_DEBUG_STACKS
CfgGlobalStacks == 1     \* FLASK_SQLA_DEBUG_MAX_GLOBAL_DEBUG_STACKS

Threads == 1..NumThreads
Seconds == 0..MaxTime
Statements == {"SELECT 1"}

\* ------------------------------------------------------------------ state
VARIABLES
    limit,              \* per thread: how much it does (the bounds of the specification)
    served,             \* per thread: the requests it has begun
    ctx,                \* per thread: an application context is pushed (stack.top is not None)
    outside,            \* per thread: what it called with no context since its last request
    config,             \* self.config, read-only after start
    now,                \* time.time() when it was last read, in half seconds
    last_stack_dump,    \* self.last_stack_dump
    global_stack_dumps, \* self.global_stack_dumps
    pc,                 \* per thread: where it is
    g,                  \* per thread: the request's dict g
    pending,            \* per thread: the statement whose before hook fired, or NoQuery
    todo,               \* per thread: maybe_dump_stack calls the running caller still makes
    caller,             \* per thread: who called maybe_dump_stack
    curtime,            \* per thread: local curtime of maybe_dump_stack
    loaded,             \* per thread: global_stack_dumps as loaded by the += of line 190
    out,                \* per thread: the records its last handler wrote to self.log
    exc,                \* per thread: the exception that failed the request, or <<>>
    outcome,            \* per thread: how the last maybe_dump_stack call of its last handler ended
    query,              \* per thread: the last completed query, its time and the calls it made
    made,               \* per thread: the request's slow queries and calls of each kind so far
    scope,              \* per thread: the starts and stops of the dump scope so far
    emitted             \* per coarse second: dumps emitted by calls that read that second

vars == <<limit, served, ctx, outside, config, now, last_stack_dump, global_stack_dumps, pc, g, pending,
          todo, caller, curtime, loaded, out, exc, outcome, query, made, scope, emitted>>

\* ------------------------------------------------------------------ helpers

\* Python 3 round() of a time given in half seconds: to the nearest integer,
\* a tie to the even one.
Round(t) ==
    IF t % 2 = 0 THEN t \div 2
    ELSE IF (t \div 2) % 2 = 0 THEN t \div 2 ELSE (t \div 2) + 1

NoTime == 0 - 1
NoQuery == "none"
NoOut == <<>>
NoLastQuery == [time_taken |-> 0, calls |-> <<>>]
\* What the request's queries did: after counts the after hooks fired, slow
\* the queries over the single-query budget, the others the calls of
\* maybe_dump_stack of each kind.
NoneMade == [after |-> 0, slow |-> 0, total |-> 0, single |-> 0, count |-> 0]
\* What the request did with the dump scope: open is starts minus stops, peak
\* the largest value open had, unbalanced the stops made with no scope open.
NoScope == [open |-> 0, peak |-> 0, unbalanced |-> 0]
\* What the thread did with no context pushed: hooks counts the query hooks
\* fired, calls the calls of maybe_dump_stack.
NoOutside == [hooks |-> 0, calls |-> 0]
\* Python's None, and the TypeError raised by subscripting it.
None == [none |-> TRUE]
TypeError == <<"TypeError: 'NoneType' object is not subscriptable">>
Params == "params"

\* The configurations of the model.
Configs ==
    [FLASK_SQLA_DEBUG_THROW_EXCEPTION : BOOLEAN,
     FLASK_SQLA_DEBUG_MAX_QUERY_COUNT : {CfgMaxQueryCount},
     FLASK_SQLA_DEBUG_MAX_SINGLE_QUERY_SECONDS : {CfgMaxSingle},
     FLASK_SQLA_DEBUG_MAX_TOTAL_QUERY_SECONDS : {CfgMaxTotal},
     FLASK_SQLA_DEBUG_MAX_REQUEST_DEBUG_STACKS : {CfgRequestStacks},
     FLASK_SQLA_DEBUG_MAX_GLOBAL_DEBUG_STACKS : {CfgGlobalStacks}]

\* _default_data with throw_exception set whatever the configuration says.
DefaultDataStrict(cfg) ==
    [throw_exception |-> TRUE,
     sql_query_count |-> 0,
     sql_max_query_count |-> cfg.FLASK_SQLA_DEBUG_MAX_QUERY_COUNT,
     sql_max_single_query_seconds |-> cfg.FLASK_SQLA_DEBUG_MAX_SINGLE_QUERY_SECONDS,
     sql_max_total_query_seconds |-> cfg.FLASK_SQLA_DEBUG_MAX_TOTAL_QUERY_SECONDS,
     sql_total_query_time |-> 0,
     sql_total_query_time_exceeded |-> FALSE,
     dump_queries |-> 0,
     stack_dump_count |-> 0,
     stack_dump_request_count |-> 0,
     query_start_time |-> NoTime]

\* _default_data: the request's dict at request begin.
DefaultData(cfg) ==
    [throw_exception |-> cfg.FLASK_SQLA_DEBUG_THROW_EXCEPTION,
     sql_query_count |-> 0,
     sql_max_query_count |-> cfg.FLASK_SQLA_DEBUG_MAX_QUERY_COUNT,
     sql_max_single_query_seconds |-> cfg.FLASK_SQLA_DEBUG_MAX_SINGLE_QUERY_SECONDS,
     sql_max_total_query_seconds |-> cfg.FLASK_SQLA_DEBUG_MAX_TOTAL_QUERY_SECONDS,
     sql_total_query_time |-> 0,
     sql_total_query_time_exceeded |-> FALSE,
     dump_queries |-> 0,
     stack_dump_count |-> 0,
     stack_dump_request_count |-> 0,
     query_start_time |-> NoTime]

\* The three message formats of the module.
FmtTotal == "Total query time exceeded for multiple queries, last query: %s, params %s"
FmtCount == "Max queries per request exceeded, last query: %s, params: %s"
FmtUnbalanced == "query_dump_stop called unbalanced with query_dump_start"
\* A message the application passes to maybe_dump_stack.
FmtApplication == "something strange: stack dump requested"

Url == "url: http://host/path"
Stack == "traceback.format_stack()"

\* fmt % tuple(args): the format followed by the values put into it.
Format(fmt, args) == <<fmt>> \o args

\* The message of the exception raised in strict mode (lines 195-197).
ExceptionMessage(fmt, args) ==
    LET s1 == <<Url>>
        s2 == Format(fmt, args)
    IN  s2

\* The record written by self.log.error (lines 198-201).
ErrorRecord(fmt, args) == <<"error", Url>> \o Format(fmt, args) \o <<Stack>>

Contains(s, x) == \E i \in 1..Len(s) : s[i] = x
Number(b) == IF b THEN 1 ELSE 0

\* Verbose per-statement logging is on (lines 222 and 265).
Verbose(gr) == gr.dump_queries > 0

\* ------------------------------------------------------------------ init

InitCommon ==
    /\ config \in Configs
    /\ now = 0
    /\ last_stack_dump = Round(0)
    /\ global_stack_dumps = 0
    /\ served = [r \in Threads |-> 0]
    /\ ctx = [r \in Threads |-> FALSE]
    /\ outside = [r \in Threads |-> NoOutside]
    /\ pc = [r \in Threads |-> "idle"]
    /\ g = [r \in Threads |-> DefaultData(config)]
    /\ pending = [r \in Threads |-> NoQuery]
    /\ todo = [r \in Threads |-> <<>>]
    /\ caller = [r \in Threads |-> "none"]
    /\ curtime = [r \in Threads |-> 0]
    /\ loaded = [r \in Threads |-> 0]
    /\ out = [r \in Threads |-> NoOut]
    /\ exc = [r \in Threads |-> <<>>]
    /\ outcome = [r \in Threads |-> "none"]
    /\ query = [r \in Threads |-> NoLastQuery]
    /\ made = [r \in Threads |-> NoneMade]
    /\ scope = [r \in Threads |-> NoScope]
    /\ emitted = [s \in Seconds |-> 0]

SeqLimit ==
    [requests |-> 1, queries |-> MaxQueries, starts |-> MaxDepth,
     stops |-> MaxStops, start_time |-> MaxQueryStart,
     hooks |-> MaxHooks, calls |-> MaxCalls]
ConcLimit ==
    [requests |-> 1, queries |-> ConcQueries, starts |-> ConcDepth,
     stops |-> ConcStops, start_time |-> ConcQueryStart,
     hooks |-> ConcHooks, calls |-> ConcCalls]
NoLimit ==
    [requests |-> 0, queries |-> 0, starts |-> 0, stops |-> 0, start_time |-> 0,
     hooks |-> 0, calls |-> 0]

Init == InitCommon /\ limit = [r \in Threads |-> ConcLimit]

InitSeq == InitCommon /\ limit = [r \in Threads |-> IF r = 1 THEN SeqLimit ELSE NoLimit]

\* ------------------------------------------------------------------ request

\* _get_g without the test of line 115: a dict whatever the context.
GetGAnyContext(r) == g[r]

\* _get_g: None with no context pushed, else the request's dict.
GetG(r) == IF ~ctx[r] THEN None ELSE g[r]

\* The request's context is pushed, then _before_request_handler: the
\* request's dict is reset to the defaults.
BeforeRequest(r) ==
    /\ pc[r] = "idle"
    /\ served[r] < limit[r].requests
    /\ served' = [served EXCEPT ![r] = @ + 1]
    /\ ctx' = [ctx EXCEPT ![r] = TRUE]
    /\ outside' = [outside EXCEPT ![r] = NoOutside]
    /\ pc' = [pc EXCEPT ![r] = "ready"]
    /\ g' = [g EXCEPT ![r] = DefaultData(config)]
    /\ out' = [out EXCEPT ![r] = <<>>]
    /\ exc' = [exc EXCEPT ![r] = <<>>]
    /\ outcome' = [outcome EXCEPT ![r] = "none"]
    /\ UNCHANGED <<limit, config, now, last_stack_dump, global_stack_dumps, pending, todo,
                   caller, curtime, loaded, query, made, scope, emitted>>

\* The summary with the count compared by > instead of >=.
SummaryOverMax(gr) ==
    <<"debug", "Total time: %0.3f, query_count: %d %s, stacks_dumped: %d, stacks_requested %d",
      gr.sql_query_count,
      IF gr.sql_query_count > gr.sql_max_query_count THEN " (exceeded max)" ELSE "",
      gr.stack_dump_count, gr.stack_dump_request_count>>

\* The summary of _after_request_handler (lines 161-168).
Summary(gr) ==
    <<"debug", "Total time: %0.3f, query_count: %d %s, stacks_dumped: %d, stacks_requested %d",
      gr.sql_query_count,
      IF gr.sql_query_count >= gr.sql_max_query_count THEN " (exceeded max)" ELSE "",
      gr.stack_dump_count, gr.stack_dump_request_count>>

\* The application context is popped: the request's dict and what the request
\* did are gone.
PopContext(r) ==
    /\ ctx' = [ctx EXCEPT ![r] = FALSE]
    /\ pc' = [pc EXCEPT ![r] = "idle"]
    /\ g' = [g EXCEPT ![r] = DefaultData(config)]
    /\ pending' = [pending EXCEPT ![r] = NoQuery]
    /\ outcome' = [outcome EXCEPT ![r] = "none"]
    /\ curtime' = [curtime EXCEPT ![r] = 0]
    /\ query' = [query EXCEPT ![r] = NoLastQuery]
    /\ made' = [made EXCEPT ![r] = NoneMade]
    /\ scope' = [scope EXCEPT ![r] = NoScope]

\* _after_request_handler, after which the application context is popped.
AfterRequest(r) ==
    /\ pc[r] = "ready"
    /\ out' = [out EXCEPT ![r] = <<Summary(g[r])>>]
    /\ PopContext(r)
    /\ UNCHANGED <<limit, outside, served, config, now, last_stack_dump, global_stack_dumps, todo,
                   caller, loaded, exc, emitted>>

\* A request failed by FlaskSqlaDebugException: its context is popped.
Teardown(r) ==
    /\ pc[r] = "failed"
    /\ out' = [out EXCEPT ![r] = <<>>]
    /\ exc' = [exc EXCEPT ![r] = <<>>]
    /\ PopContext(r)
    /\ UNCHANGED <<limit, outside, served, config, now, last_stack_dump, global_stack_dumps, todo,
                   caller, loaded, emitted>>

\* ------------------------------------------------------------------ callers

\* The debug records of the hooks (lines 223 and 266).
Executing(statement, parameters) ==
    <<"debug", "Executing query: %s, params: %s", statement, parameters>>
Finished(time_taken) == <<"debug", "Query finished in {} seconds.", time_taken>>

\* The caller of maybe_dump_stack goes on: the next call it makes, or its end
\* (line 265 of _after_cursor_execute; the end of query_dump_stop).
Resume(r, rest, gr, o) ==
    /\ todo' = [todo EXCEPT ![r] = rest]
    /\ curtime' = [curtime EXCEPT ![r] = 0]
    /\ IF rest # <<>>
       THEN /\ pc' = [pc EXCEPT ![r] = "L177"]
            /\ out' = [out EXCEPT ![r] = o]
            /\ caller' = caller
       ELSE /\ pc' = [pc EXCEPT ![r] = IF ctx[r] THEN "ready" ELSE "idle"]
            /\ caller' = [caller EXCEPT ![r] = "none"]
            /\ out' = [out EXCEPT ![r] =
                  IF caller[r] = "after" /\ Verbose(gr)
                  THEN Append(o, Finished(query[r].time_taken))
                  ELSE o]

\* query_dump_start
QueryDumpStart(r) ==
    /\ pc[r] = "ready"
    /\ scope[r].open < limit[r].starts
    /\ g' = [g EXCEPT ![r].dump_queries = @ + 1]
    /\ scope' = [scope EXCEPT ![r].open = @ + 1,
                              ![r].peak = IF scope[r].open + 1 > @ THEN scope[r].open + 1 ELSE @]
    /\ out' = [out EXCEPT ![r] = <<>>]
    /\ outcome' = [outcome EXCEPT ![r] = "none"]
    /\ UNCHANGED <<limit, ctx, outside, served, config, now, last_stack_dump, global_stack_dumps, pc, pending,
                   todo, caller, curtime, loaded, exc, query, made, emitted>>

\* A stop that switches the logging off whatever the depth.
StopDepthFlat(d) == 0

\* The value query_dump_stop leaves in g["dump_queries"] (line 210).
StopDepth(d) == d - 1

\* query_dump_stop, up to its call of maybe_dump_stack
QueryDumpStop(r) ==
    /\ pc[r] = "ready"
    /\ scope[r].open <= 0 => scope[r].unbalanced < limit[r].stops
    /\ g' = [g EXCEPT ![r].dump_queries = StopDepth(@)]
    /\ scope' = [scope EXCEPT ![r].open = @ - 1,
                              ![r].unbalanced = IF scope[r].open <= 0 THEN @ + 1 ELSE @]
    /\ IF g'[r].dump_queries < 0
       THEN /\ todo' = [todo EXCEPT ![r] = <<[fmt |-> FmtUnbalanced, args |-> <<>>]>>]
            /\ caller' = [caller EXCEPT ![r] = "stop"]
            /\ pc' = [pc EXCEPT ![r] = "L177"]
       ELSE UNCHANGED <<todo, caller, pc>>
    /\ out' = [out EXCEPT ![r] = <<>>]
    /\ outcome' = [outcome EXCEPT ![r] = "none"]
    /\ UNCHANGED <<limit, ctx, outside, served, config, now, last_stack_dump, global_stack_dumps, pending,
                   curtime, loaded, exc, query, made, emitted>>

\* A query hook fires on thread r: in its request while the request has
\* queries left, with no context while the idle period has hooks left.
HookFires(r) ==
    /\ pc[r] \in {"idle", "ready"}
    /\ IF ctx[r]
       THEN /\ g[r].sql_query_count < limit[r].queries
            /\ outside' = outside
       ELSE /\ outside[r].hooks < limit[r].hooks
            /\ outside' = [outside EXCEPT ![r].hooks = @ + 1]

\* _before_cursor_execute
BeforeCursorExecute(r) ==
    /\ HookFires(r)
    /\ IF GetG(r) = None
       THEN /\ out' = [out EXCEPT ![r] = <<>>]
            /\ UNCHANGED <<g, pending>>
       ELSE \E t \in 0..limit[r].start_time, statement \in Statements :
               /\ g' = [g EXCEPT ![r].query_start_time = t]
               /\ pending' = [pending EXCEPT ![r] = statement]
               /\ out' = [out EXCEPT ![r] =
                     IF Verbose(GetG(r)) THEN <<Executing(statement, Params)>> ELSE <<>>]
    /\ outcome' = [outcome EXCEPT ![r] = "none"]
    /\ exc' = [exc EXCEPT ![r] = <<>>]
    /\ UNCHANGED <<limit, ctx, served, config, now, last_stack_dump, global_stack_dumps, pc, todo,
                   caller, curtime, loaded, query, made, scope, emitted>>

\* The checks with the count compared by >= instead of ==.
ThresholdCallsCountAtLeast(gr, time_taken) ==
    LET total == /\ gr.sql_total_query_time > gr.sql_max_total_query_seconds
                 /\ ~gr.sql_total_query_time_exceeded
        single == ~total /\ gr.sql_max_single_query_seconds < time_taken
        count == ~(total \/ single) /\ gr.sql_query_count >= gr.sql_max_query_count
    IN  (IF total THEN <<"total">> ELSE <<>>)
        \o (IF single THEN <<"single">> ELSE <<>>)
        \o (IF count THEN <<"count">> ELSE <<>>)

\* The checks without the test of sql_total_query_time_exceeded.
ThresholdCallsNoFlag(gr, time_taken) ==
    LET total == gr.sql_total_query_time > gr.sql_max_total_query_seconds
        single == ~total /\ gr.sql_max_single_query_seconds < time_taken
        count == ~(total \/ single) /\ gr.sql_query_count = gr.sql_max_query_count
    IN  (IF total THEN <<"total">> ELSE <<>>)
        \o (IF single THEN <<"single">> ELSE <<>>)
        \o (IF count THEN <<"count">> ELSE <<>>)

\* The checks with the single-query budget compared by <= instead of <.
ThresholdCallsSingleAtLeast(gr, time_taken) ==
    LET total == /\ gr.sql_total_query_time > gr.sql_max_total_query_seconds
                 /\ ~gr.sql_total_query_time_exceeded
        single == ~total /\ gr.sql_max_single_query_seconds <= time_taken
        count == ~(total \/ single) /\ gr.sql_query_count = gr.sql_max_query_count
    IN  (IF total THEN <<"total">> ELSE <<>>)
        \o (IF single THEN <<"single">> ELSE <<>>)
        \o (IF count THEN <<"count">> ELSE <<>>)

\* The checks with logged left False after the total-time dump.
ThresholdCallsNotLogged(gr, time_taken) ==
    LET total == /\ gr.sql_total_query_time > gr.sql_max_total_query_seconds
                 /\ ~gr.sql_total_query_time_exceeded
        single == gr.sql_max_single_query_seconds < time_taken
        count == ~single /\ gr.sql_query_count = gr.sql_max_query_count
    IN  (IF total THEN <<"total">> ELSE <<>>)
        \o (IF single THEN <<"single">> ELSE <<>>)
        \o (IF count THEN <<"count">> ELSE <<>>)

\* The checks with the count tested first and the time budgets after it.
ThresholdCallsCountFirst(gr, time_taken) ==
    LET count == gr.sql_query_count = gr.sql_max_query_count
        total == /\ ~count
                 /\ gr.sql_total_query_time > gr.sql_max_total_query_seconds
                 /\ ~gr.sql_total_query_time_exceeded
        single == ~(count \/ total) /\ gr.sql_max_single_query_seconds < time_taken
    IN  (IF count THEN <<"count">> ELSE <<>>)
        \o (IF total THEN <<"total">> ELSE <<>>)
        \o (IF single THEN <<"single">> ELSE <<>>)

\* The checks of _after_cursor_execute (lines 246-263) on the dict as updated
\* by lines 244 and 248: the calls of maybe_dump_stack they make, in order.
ThresholdCalls(gr, time_taken) ==
    LET total == /\ gr.sql_total_query_time > gr.sql_max_total_query_seconds
                 /\ ~gr.sql_total_query_time_exceeded
        logged1 == total
        single == ~logged1 /\ gr.sql_max_single_query_seconds < time_taken
        logged2 == logged1 \/ single
        count == ~logged2 /\ gr.sql_query_count = gr.sql_max_query_count
    IN  (IF total THEN <<"total">> ELSE <<>>)
        \o (IF single THEN <<"single">> ELSE <<>>)
        \o (IF count THEN <<"count">> ELSE <<>>)

\* The value of g["sql_total_query_time_exceeded"] after lines 249-251.
TotalExceeded(gr) ==
    \/ gr.sql_total_query_time_exceeded
    \/ gr.sql_total_query_time > gr.sql_max_total_query_seconds

\* The format each check passes to maybe_dump_stack (lines 252, 257, 262).
FmtOf(kind) == IF kind = "count" THEN FmtCount ELSE FmtTotal

\* The value line 244 leaves in g["sql_query_count"] if the query were
\* counted twice, once for each hook.
NextQueryCountTwice(n) == n + 2

\* The value line 244 leaves in g["sql_query_count"].
NextQueryCount(n) == n + 1

\* _after_cursor_execute, up to its first call of maybe_dump_stack
AfterCursorExecute(r) ==
    /\ HookFires(r)
    /\ ctx[r] => pending[r] # NoQuery
    /\ IF GetG(r) = None
       THEN /\ out' = [out EXCEPT ![r] = <<>>]
            /\ UNCHANGED <<g, pending, query, made, pc, todo, caller>>
       ELSE /\ \E d \in 0..MaxQueryTime :
                  LET gr == GetG(r)
                      time_taken == (gr.query_start_time + d) - gr.query_start_time
                      g1 == [gr EXCEPT !.sql_query_count = NextQueryCount(@),
                                       !.sql_total_query_time = @ + time_taken]
                      calls == ThresholdCalls(g1, time_taken)
                      g2 == [g1 EXCEPT !.sql_total_query_time_exceeded = TotalExceeded(g1)]
                  IN  /\ g' = [g EXCEPT ![r] = g2]
                      /\ query' = [query EXCEPT ![r] =
                            [time_taken |-> time_taken, calls |-> calls]]
                      /\ made' = [made EXCEPT ![r] =
                            [after |-> @.after + 1,
                             slow |-> @.slow
                                      + Number(time_taken > g1.sql_max_single_query_seconds),
                             total |-> @.total + Number(Contains(calls, "total")),
                             single |-> @.single + Number(Contains(calls, "single")),
                             count |-> @.count + Number(Contains(calls, "count"))]]
                      /\ IF calls = <<>>
                         THEN /\ out' = [out EXCEPT ![r] =
                                    IF Verbose(g2) THEN <<Finished(time_taken)>> ELSE <<>>]
                              /\ UNCHANGED <<pc, todo, caller>>
                         ELSE /\ todo' = [todo EXCEPT ![r] =
                                    [i \in 1..Len(calls) |->
                                        [fmt |-> FmtOf(calls[i]),
                                         args |-> <<pending[r], Params>>]]]
                              /\ caller' = [caller EXCEPT ![r] = "after"]
                              /\ pc' = [pc EXCEPT ![r] = "L177"]
                              /\ out' = [out EXCEPT ![r] = <<>>]
            /\ pending' = [pending EXCEPT ![r] = NoQuery]
    /\ outcome' = [outcome EXCEPT ![r] = "none"]
    /\ exc' = [exc EXCEPT ![r] = <<>>]
    /\ UNCHANGED <<limit, ctx, served, config, now, last_stack_dump, global_stack_dumps, curtime,
                   loaded, scope, emitted>>

\* ------------------------------------------------------------------ maybe_dump_stack

\* Line 181: the request has used up its dumps.
RequestCapReached(gr, cfg) ==
    gr.stack_dump_count > cfg.FLASK_SQLA_DEBUG_MAX_REQUEST_DEBUG_STACKS

\* The application calls maybe_dump_stack with no context pushed, once the
\* thread's requests are over.
MaybeDumpStack(r) ==
    /\ pc[r] = "idle"
    /\ ~ctx[r]
    /\ served[r] = limit[r].requests
    /\ outside[r].calls < limit[r].calls
    /\ outside' = [outside EXCEPT ![r].calls = @ + 1]
    /\ todo' = [todo EXCEPT ![r] = <<[fmt |-> FmtApplication, args |-> <<>>]>>]
    /\ caller' = [caller EXCEPT ![r] = "application"]
    /\ pc' = [pc EXCEPT ![r] = "L177"]
    /\ out' = [out EXCEPT ![r] = <<>>]
    /\ exc' = [exc EXCEPT ![r] = <<>>]
    /\ outcome' = [outcome EXCEPT ![r] = "none"]
    /\ UNCHANGED <<limit, served, ctx, config, now, last_stack_dump, global_stack_dumps, g,
                   pending, curtime, loaded, query, made, scope, emitted>>

\* Line 180 placed after the test of line 181: only the calls that pass the
\* per-request cap are counted.
CountRequestIfPassed(gr, cfg) ==
    IF RequestCapReached(gr, cfg) THEN gr
    ELSE [gr EXCEPT !.stack_dump_request_count = @ + 1]

\* Line 192 placed with line 180: the dump is counted before the caps are
\* tested.
CountRequestAndDump(gr, cfg) ==
    [gr EXCEPT !.stack_dump_request_count = @ + 1, !.stack_dump_count = @ + 1]

\* Line 180: the call is counted.
CountRequest(gr, cfg) == [gr EXCEPT !.stack_dump_request_count = @ + 1]

\* Lines 177-182: the request's counter of calls and the per-request cap,
\* both skipped when there is no dict.
MdsRequestCap(r) ==
    /\ pc[r] = "L177"
    /\ IF GetG(r) = None
       THEN /\ pc' = [pc EXCEPT ![r] = "L185"]
            /\ UNCHANGED <<g, outcome, todo, caller, out, curtime>>
       ELSE LET gr == CountRequest(GetG(r), config)
            IN  /\ g' = [g EXCEPT ![r] = gr]
                /\ IF RequestCapReached(gr, config)
                   THEN /\ outcome' = [outcome EXCEPT ![r] = "request_cap"]
                        /\ Resume(r, Tail(todo[r]), gr, out[r])
                   ELSE /\ pc' = [pc EXCEPT ![r] = "L185"]
                        /\ UNCHANGED <<outcome, todo, caller, out, curtime>>
    /\ UNCHANGED <<limit, ctx, outside, served, config, now, last_stack_dump, global_stack_dumps, pending,
                   loaded, exc, query, made, scope, emitted>>

\* Line 185: curtime = round(time.time()).  The clock is read: it shows the
\* time of its last reading or a later one.
MdsReadTime(r) ==
    /\ pc[r] = "L185"
    /\ \E t \in now..MaxTime :
          /\ now' = t
          /\ curtime' = [curtime EXCEPT ![r] = Round(t)]
    /\ pc' = [pc EXCEPT ![r] = "L186"]
    /\ UNCHANGED <<limit, ctx, outside, served, config, last_stack_dump, global_stack_dumps, g, pending,
                   todo, caller, loaded, out, exc, outcome, query, made, scope, emitted>>

\* Line 186: curtime == self.last_stack_dump
MdsSameSecond(r) ==
    /\ pc[r] = "L186"
    /\ pc' = [pc EXCEPT ![r] = IF curtime[r] = last_stack_dump THEN "L187" ELSE "L189"]
    /\ UNCHANGED <<limit, ctx, outside, served, config, now, last_stack_dump, global_stack_dumps, g, pending,
                   todo, caller, curtime, loaded, out, exc, outcome, query, made, scope, emitted>>

\* Line 187: the process has used up its dumps of this second.
GlobalCapReached(n, cfg) == n > cfg.FLASK_SQLA_DEBUG_MAX_GLOBAL_DEBUG_STACKS

\* Lines 187-188: the global cap
MdsGlobalCap(r) ==
    /\ pc[r] = "L187"
    /\ IF GlobalCapReached(global_stack_dumps, config)
       THEN /\ outcome' = [outcome EXCEPT ![r] = "global_cap"]
            /\ Resume(r, Tail(todo[r]), g[r], out[r])
       ELSE /\ pc' = [pc EXCEPT ![r] = "L189"]
            /\ UNCHANGED <<outcome, todo, caller, out, curtime>>
    /\ UNCHANGED <<limit, ctx, outside, served, config, now, last_stack_dump, global_stack_dumps, g, pending,
                   loaded, exc, query, made, scope, emitted>>

\* Line 189: self.last_stack_dump = curtime
MdsSetLast(r) ==
    /\ pc[r] = "L189"
    /\ last_stack_dump' = curtime[r]
    /\ pc' = [pc EXCEPT ![r] = "L190"]
    /\ UNCHANGED <<limit, ctx, outside, served, config, now, global_stack_dumps, g, pending, todo, caller,
                   curtime, loaded, out, exc, outcome, query, made, scope, emitted>>

\* Line 190, first half: the += loads self.global_stack_dumps
MdsLoadCount(r) ==
    /\ pc[r] = "L190"
    /\ loaded' = [loaded EXCEPT ![r] = global_stack_dumps]
    /\ pc' = [pc EXCEPT ![r] = "L190store"]
    /\ UNCHANGED <<limit, ctx, outside, served, config, now, last_stack_dump, global_stack_dumps, g, pending,
                   todo, caller, curtime, out, exc, outcome, query, made, scope, emitted>>

\* The value the += of line 190 stores.
NextCount(n) == n + 1

\* Line 190, second half: the += stores the sum
MdsStoreCount(r) ==
    /\ pc[r] = "L190store"
    /\ global_stack_dumps' = NextCount(loaded[r])
    /\ loaded' = [loaded EXCEPT ![r] = 0]
    /\ pc' = [pc EXCEPT ![r] = "L192"]
    /\ UNCHANGED <<limit, ctx, outside, served, config, now, last_stack_dump, g, pending, todo, caller,
                   curtime, out, exc, outcome, query, made, scope, emitted>>

\* Lines 192-201: the dump is counted and emitted, raised or logged.  With no
\* dict, line 192 subscripts None and the call ends in a TypeError.
MdsEmit(r) ==
    /\ pc[r] = "L192"
    /\ IF GetG(r) = None
       THEN /\ exc' = [exc EXCEPT ![r] = TypeError]
            /\ outcome' = [outcome EXCEPT ![r] = "type_error"]
            /\ pc' = [pc EXCEPT ![r] = IF ctx[r] THEN "failed" ELSE "idle"]
            /\ todo' = [todo EXCEPT ![r] = <<>>]
            /\ caller' = [caller EXCEPT ![r] = "none"]
            /\ curtime' = [curtime EXCEPT ![r] = 0]
            /\ UNCHANGED <<g, emitted, out>>
       ELSE LET gr == [GetG(r) EXCEPT !.stack_dump_count = @ + 1]
                call == Head(todo[r])
            IN  /\ g' = [g EXCEPT ![r] = gr]
                /\ emitted' = [emitted EXCEPT ![curtime[r]] = @ + 1]
                /\ IF gr.throw_exception
                   THEN /\ exc' = [exc EXCEPT ![r] = ExceptionMessage(call.fmt, call.args)]
                        /\ outcome' = [outcome EXCEPT ![r] = "raised"]
                        /\ pc' = [pc EXCEPT ![r] = "failed"]
                        /\ todo' = [todo EXCEPT ![r] = <<>>]
                        /\ caller' = [caller EXCEPT ![r] = "none"]
                        /\ curtime' = [curtime EXCEPT ![r] = 0]
                        /\ out' = out
                   ELSE /\ outcome' = [outcome EXCEPT ![r] = "logged"]
                        /\ Resume(r, Tail(todo[r]), gr,
                                  Append(out[r], ErrorRecord(call.fmt, call.args)))
                        /\ exc' = exc
    /\ UNCHANGED <<limit, ctx, outside, served, config, now, last_stack_dump, global_stack_dumps, pending,
                   loaded, query, made, scope>>

\* ------------------------------------------------------------------ specification

Next ==
    \E r \in Threads :
          \/ BeforeRequest(r)
          \/ AfterRequest(r)
          \/ Teardown(r)
          \/ QueryDumpStart(r)
          \/ QueryDumpStop(r)
          \/ BeforeCursorExecute(r)
          \/ AfterCursorExecute(r)
          \/ MaybeDumpStack(r)
          \/ MdsRequestCap(r)
          \/ MdsReadTime(r)
          \/ MdsSameSecond(r)
          \/ MdsGlobalCap(r)
          \/ MdsSetLast(r)
          \/ MdsLoadCount(r)
          \/ MdsStoreCount(r)
          \/ MdsEmit(r)

\* Worker threads serving requests concurrently.
Spec == Init /\ [][Next]_vars

\* One worker thread serving a request.
SpecSeq == InitSeq /\ [][Next]_vars

\* ------------------------------------------------------------------ properties

\* The last completed query of request r made the call of the given kind.
Made(r, kind) == Contains(query[r].calls, kind)

\* C1: per-request cap.  The number of dumps a request emits never exceeds
\* N = FLASK_SQLA_DEBUG_MAX_REQUEST_DEBUG_STACKS.
C1_PerRequestCap ==
    \A r \in Threads :
        g[r].stack_dump_count <= config.FLASK_SQLA_DEBUG_MAX_REQUEST_DEBUG_STACKS

\* C2: global cap.  The number of dumps emitted process-wide in one coarse
\* second is at most M = FLASK_SQLA_DEBUG_MAX_GLOBAL_DEBUG_STACKS, whatever the
\* interleaving of the requests.
C2_GlobalCap ==
    \A s \in Seconds : emitted[s] <= config.FLASK_SQLA_DEBUG_MAX_GLOBAL_DEBUG_STACKS

\* C3: global counter reset.  A call that runs in a new coarse second counts
\* from 0 again: when a call has stored the counter and is about to emit, the
\* counter is the number of dumps of the call's own second, this one included.
C3_CounterReset ==
    \A r \in Threads :
        pc[r] = "L192" => global_stack_dumps = emitted[curtime[r]] + 1

\* Request r has passed the comparison of lines 186-187 and has not yet stored
\* the incremented counter.
InUpdate(r) == pc[r] \in {"L189", "L190", "L190store"}

\* C4: mutual exclusion.  No two requests are at once between the comparison
\* of the global counter and the store of its increment.
C4_MutualExclusion ==
    \A r, s \in Threads : (InUpdate(r) /\ InUpdate(s)) => r = s

\* C5 as claimed: a request that has completed at least sql_max_query_count
\* queries has triggered the count dump exactly once, whatever the durations
\* of its queries.
C5_CountDumpExactlyOnce ==
    \A r \in Threads :
        g[r].sql_query_count >= g[r].sql_max_query_count => made[r].count = 1

\* C5 as amended: a query triggers the count dump exactly when it makes
\* sql_query_count equal to sql_max_query_count and triggers neither of the
\* time dumps: it is within the single-query budget, and it is not the first
\* to take the total time over the total budget.  So the count dump is
\* triggered at most once per request.
C5_CountDumpUnlessMasked ==
    \A r \in Threads :
        /\ made[r].count <= 1
        /\ g[r].sql_query_count >= 1 =>
              (Made(r, "count") <=>
                  /\ g[r].sql_query_count = g[r].sql_max_query_count
                  /\ query[r].time_taken <= g[r].sql_max_single_query_seconds
                  /\ \/ g[r].sql_total_query_time <= g[r].sql_max_total_query_seconds
                     \/ g[r].sql_total_query_time - query[r].time_taken
                            > g[r].sql_max_total_query_seconds)

\* A request went past sql_max_query_count queries and the query that reached
\* the count made the count dump; no later query made it again.
C5_Witness ==
    \E r \in Threads :
        /\ g[r].sql_query_count > g[r].sql_max_query_count
        /\ made[r].count = 1
        /\ ~Made(r, "count")

\* C6: the total-time dump is triggered at most once per request, and
\* sql_total_query_time_exceeded is true exactly once it has been triggered.
C6_TotalDumpAtMostOnce ==
    \A r \in Threads :
        /\ made[r].total <= 1
        /\ g[r].sql_total_query_time_exceeded <=> made[r].total = 1

\* A later query of the request ran with the total time still over the budget
\* and did not trigger the total-time dump again.
C6_Witness ==
    \E r \in Threads :
        /\ made[r].total = 1
        /\ ~Made(r, "total")
        /\ query[r].time_taken > 0
        /\ g[r].sql_total_query_time - query[r].time_taken
              > g[r].sql_max_total_query_seconds

\* Thread r is in a request, which stayed within the three budgets.
WithinBudgets(r) ==
    /\ ctx[r]
    /\ g[r].sql_query_count < g[r].sql_max_query_count
    /\ made[r].slow = 0
    /\ g[r].sql_total_query_time <= g[r].sql_max_total_query_seconds

\* C7: no false positives.  In a request within the three budgets no query
\* hook calls maybe_dump_stack; unless query_dump_stop was called with no
\* scope open, the request never enters maybe_dump_stack and both of its dump
\* counters are 0.
C7_NoFalsePositives ==
    \A r \in Threads :
        WithinBudgets(r) =>
            /\ made[r].total + made[r].single + made[r].count = 0
            /\ caller[r] # "after"
            /\ scope[r].unbalanced = 0 =>
                  /\ pc[r] = "ready"
                  /\ g[r].stack_dump_request_count = 0
                  /\ g[r].stack_dump_count = 0

\* A request completed a query that used the whole single-query budget.
C7_Witness ==
    \E r \in Threads :
        /\ pc[r] = "ready"
        /\ WithinBudgets(r)
        /\ g[r].sql_query_count >= 1
        /\ query[r].time_taken = g[r].sql_max_single_query_seconds
        /\ g[r].stack_dump_request_count = 0

\* C8: a query over the single-query budget makes exactly one call of
\* maybe_dump_stack in its own after hook (the single-query dump, or the
\* total-time dump when the query also is the first over the total budget),
\* whatever the queries before it; so each slow query of the request made one.
C8_SlowQueryOneDump ==
    \A r \in Threads :
        /\ query[r].time_taken > g[r].sql_max_single_query_seconds =>
              /\ Len(query[r].calls) = 1
              /\ query[r].calls[1] \in {"total", "single"}
        /\ made[r].slow <= made[r].total + made[r].single

\* A second slow query of a request made the single-query dump, after the
\* total-time dump had been made.
C8_Witness ==
    \E r \in Threads :
        /\ g[r].sql_query_count >= 3
        /\ made[r].slow >= 2
        /\ made[r].total = 1
        /\ query[r].time_taken > g[r].sql_max_single_query_seconds
        /\ query[r].calls = <<"single">>

\* C9: nesting of the dump scope.  After starts and stops of which no prefix
\* has more stops than starts, verbose logging is on exactly when there were
\* more starts than stops.
C9_Nesting ==
    \A r \in Threads :
        scope[r].unbalanced = 0 => (Verbose(g[r]) <=> scope[r].open > 0)

\* After start, start, stop the outer scope is still open and logging is on.
C9_Witness ==
    \E r \in Threads :
        /\ scope[r].unbalanced = 0
        /\ scope[r].peak = 2
        /\ scope[r].open = 1
        /\ Verbose(g[r])

Fmts == {FmtTotal, FmtCount, FmtUnbalanced}

\* C10: strict mode.  The exception that fails the request carries the
\* message, with the statement for the dumps of the query hooks, and the URL;
\* in log mode nothing is raised and the record of a dump carries the
\* message, the URL and the stack.
C10_StrictMode ==
    \A r \in Threads :
        /\ pc[r] = "failed" =>
              /\ g[r].throw_exception
              /\ Contains(exc[r], Url)
              /\ \E f \in Fmts :
                    /\ Contains(exc[r], f)
                    /\ f # FmtUnbalanced => \E st \in Statements : Contains(exc[r], st)
        /\ (ctx[r] /\ ~g[r].throw_exception) =>
              /\ exc[r] = <<>>
              /\ outcome[r] = "logged" => \E i \in 1..Len(out[r]) : out[r][i][1] = "error"
              /\ \A i \in 1..Len(out[r]) :
                    out[r][i][1] = "error" =>
                        /\ Contains(out[r][i], Url)
                        /\ Contains(out[r][i], Stack)
                        /\ \E f \in Fmts : Contains(out[r][i], f)

\* Thread r is in a request that has completed exactly sql_max_query_count
\* queries, each within the single-query budget and together within the
\* total budget.
ExactlyMaxWithinBudgets(r) ==
    /\ ctx[r]
    /\ g[r].sql_query_count = g[r].sql_max_query_count
    /\ made[r].slow = 0
    /\ g[r].sql_total_query_time <= g[r].sql_max_total_query_seconds

\* The step of thread r is the end of its request: _after_request_handler
\* logs the summary.
SummaryLogged(r) == pc[r] = "ready" /\ pc'[r] = "idle"

\* C11: request summary.  A request that completes exactly
\* sql_max_query_count queries within the two time budgets has triggered
\* exactly one dump from its hooks, the count dump, on its last query (and
\* with no unbalanced query_dump_stop that is the request's only call of
\* maybe_dump_stack); and the summary logged at the end of any request
\* reports the number of completed queries, marked "exceeded max" exactly when
\* that number is >= sql_max_query_count, and the two dump counters.
C11_RequestSummary ==
    /\ [](\A r \in Threads :
            ExactlyMaxWithinBudgets(r) =>
                /\ made[r].count = 1
                /\ made[r].total = 0
                /\ made[r].single = 0
                /\ Made(r, "count")
                /\ (pc[r] = "ready" /\ scope[r].unbalanced = 0) =>
                      g[r].stack_dump_request_count = 1)
    /\ [][\A r \in Threads :
            SummaryLogged(r) =>
                /\ Len(out'[r]) = 1
                /\ out'[r][1][1] = "debug"
                /\ out'[r][1][3] = made[r].after
                /\ out'[r][1][4] \in {"", " (exceeded max)"}
                /\ out'[r][1][4] = " (exceeded max)"
                      <=> made[r].after >= config.FLASK_SQLA_DEBUG_MAX_QUERY_COUNT
                /\ out'[r][1][5] = g[r].stack_dump_count
                /\ out'[r][1][6] = g[r].stack_dump_request_count
                /\ ExactlyMaxWithinBudgets(r) =>
                      /\ out'[r][1][3] = config.FLASK_SQLA_DEBUG_MAX_QUERY_COUNT
                      /\ out'[r][1][4] = " (exceeded max)"]_vars

\* A request ended whose summary reports sql_max_query_count queries, marked
\* "exceeded max", with one dump requested and one emitted.
C11_Witness ==
    \E r \in Threads :
        /\ pc[r] = "idle"
        /\ served[r] = 1
        /\ Len(out[r]) = 1
        /\ out[r][1][3] = config.FLASK_SQLA_DEBUG_MAX_QUERY_COUNT
        /\ out[r][1][4] = " (exceeded max)"
        /\ out[r][1][5] = 1
        /\ out[r][1][6] = 1

\* The step of thread r is a query hook fired with no context pushed.
HookWithoutContext(r) == ~ctx[r] /\ outside'[r].hooks = outside[r].hooks + 1

\* C12: missing request context.  A query hook fired with no context pushed
\* returns at once: it raises nothing, logs nothing, calls nothing, and leaves
\* every request's dict and the state of the global limiter as they were.
C12_NoContextNoOp ==
    [][\A r \in Threads :
          HookWithoutContext(r) =>
              /\ pc'[r] = "idle"
              /\ exc'[r] = <<>>
              /\ out'[r] = <<>>
              /\ todo'[r] = <<>>
              /\ g' = g
              /\ pending' = pending
              /\ last_stack_dump' = last_stack_dump
              /\ global_stack_dumps' = global_stack_dumps]_vars

\* Two query hooks fired with no context, after a request that made dumps.
C12_Witness ==
    \E r \in Threads :
        /\ ~ctx[r]
        /\ served[r] = 1
        /\ outside[r].hooks = 2
        /\ global_stack_dumps > 0
        /\ exc[r] = <<>>

\* The calls of maybe_dump_stack the request of thread r has made: one by
\* each hook that found a threshold crossed, one by each unbalanced
\* query_dump_stop.
CallsMade(r) == made[r].total + made[r].single + made[r].count + scope[r].unbalanced

\* C13: requested-dump accounting.  In a request, stack_dump_request_count is
\* the number of calls of maybe_dump_stack that have passed line 180, whether
\* they went on to be emitted, suppressed by the per-request cap or suppressed
\* by the global cap: every call the request has made, less the one that has
\* been entered and not yet counted.
C13_RequestedCount ==
    \A r \in Threads :
        ctx[r] =>
            g[r].stack_dump_request_count
                = CallsMade(r) - (IF pc[r] = "L177" THEN 1 ELSE 0)

\* A request made N + 2 calls: N + 1 were emitted (see C1), the last was
\* suppressed by the per-request cap, and all were counted.
C13_Witness ==
    \E r \in Threads :
        /\ ctx[r]
        /\ pc[r] = "ready"
        /\ outcome[r] = "request_cap"
        /\ g[r].stack_dump_request_count
              = config.FLASK_SQLA_DEBUG_MAX_REQUEST_DEBUG_STACKS + 2
        /\ g[r].stack_dump_count < g[r].stack_dump_request_count

\* C14: an unbalanced dump-scope exit is never fatal.  A query_dump_stop with
\* no scope open reports through maybe_dump_stack and returns to its caller
\* in every configuration: no request is failed by the exception of the
\* "unbalanced" message.
C14_UnbalancedStopNeverFatal ==
    \A r \in Threads :
        ~(pc[r] = "failed" /\ Contains(exc[r], FmtUnbalanced))

\* C15: the depth of the dump scope is never negative.  dump_queries >= 0 in
\* every state of a request; a query_dump_stop with no scope open leaves it
\* where it was, so that after such a stop and one query_dump_start the
\* verbose logging is on.
C15_DepthNeverNegative ==
    \A r \in Threads :
        /\ g[r].dump_queries >= 0
        /\ (scope[r].unbalanced = 1 /\ scope[r].peak = 0 /\ scope[r].open = 0) =>
              Verbose(g[r])

\* After the last completed query of request r the total time is over the
\* total budget.
OverTotal(r) == g[r].sql_total_query_time > g[r].sql_max_total_query_seconds

\* The total time was over the total budget before that query.
OverTotalBefore(r) ==
    g[r].sql_total_query_time - query[r].time_taken > g[r].sql_max_total_query_seconds

\* That query was over the single-query budget.
OverSingle(r) == query[r].time_taken > g[r].sql_max_single_query_seconds

\* That query made the count equal to the maximum.
AtMaxCount(r) == g[r].sql_query_count = g[r].sql_max_query_count

\* C16: threshold order and short-circuit.  Each completed query makes at
\* most one call of maybe_dump_stack: the total-time dump if the query is the
\* first to take the total over its budget, else the single-query dump if the
\* query is over the single-query budget, else the count dump if the query
\* makes the count equal to the maximum, else none.  A query that finds the
\* total over the budget with the flag already set falls through to the
\* other two checks.
C16_ThresholdOrder ==
    \A r \in Threads :
        (ctx[r] /\ g[r].sql_query_count >= 1) =>
            /\ Len(query[r].calls) <= 1
            /\ query[r].calls =
                  IF OverTotal(r) /\ ~OverTotalBefore(r) THEN <<"total">>
                  ELSE IF OverSingle(r) THEN <<"single">>
                  ELSE IF AtMaxCount(r) THEN <<"count">>
                  ELSE <<>>

\* A query crossed the three thresholds at once and made the total-time dump
\* alone.
C16_Witness ==
    \E r \in Threads :
        /\ ctx[r]
        /\ OverTotal(r)
        /\ ~OverTotalBefore(r)
        /\ OverSingle(r)
        /\ AtMaxCount(r)
        /\ query[r].calls = <<"total">>

\* C17: maybe_dump_stack without a request's dict.  Called with no context
\* pushed, maybe_dump_stack skips the per-request steps, applies the global
\* cap and completes: it raises no error and leaves the dicts alone.
C17_NoScopeDump ==
    \A r \in Threads :
        ~ctx[r] =>
            /\ exc[r] # TypeError
            /\ outcome[r] # "type_error"
            /\ g[r] = DefaultData(config)

\* C18: the default mode never disturbs the request.  With
\* FLASK_SQLA_DEBUG_THROW_EXCEPTION false no call made in a request raises,
\* whatever thresholds its queries cross: the request is never failed, and a
\* call suppressed by the per-request or the global cap has returned to its
\* caller, which has run to its end.
C18_DefaultModeNeverRaises ==
    \A r \in Threads :
        (ctx[r] /\ ~config.FLASK_SQLA_DEBUG_THROW_EXCEPTION) =>
            /\ pc[r] # "failed"
            /\ exc[r] = <<>>
            /\ outcome[r] # "raised"
            /\ outcome[r] \in {"request_cap", "global_cap"} => pc[r] = "ready"

\* In the default mode a request crossed the three thresholds; its last dump
\* was suppressed by the global cap and the request goes on.
C18_Witness ==
    \E r \in Threads :
        /\ ctx[r]
        /\ ~config.FLASK_SQLA_DEBUG_THROW_EXCEPTION
        /\ pc[r] = "ready"
        /\ made[r].total = 1
        /\ made[r].single = 1
        /\ made[r].count = 1
        /\ outcome[r] = "global_cap"

\* The step of thread r is an after hook in its request: the pending query
\* is completed.
QueryCompleted(r) == ctx[r] /\ ctx'[r] /\ pending[r] # NoQuery /\ pending'[r] = NoQuery

\* C19: query counting.  In a request sql_query_count is the number of after
\* hooks fired since the request began: an after hook adds exactly one, and
\* no other step of the request changes it, a before hook (the first of a
\* query or one that overwrites the start of a query that never completed)
\* included.
C19_QueryCounting ==
    /\ [](\A r \in Threads : ctx[r] => g[r].sql_query_count = made[r].after)
    /\ [][\A r \in Threads :
            (ctx[r] /\ ctx'[r]) =>
                g'[r].sql_query_count
                    = g[r].sql_query_count + (IF QueryCompleted(r) THEN 1 ELSE 0)]_vars

\* A request that has completed two queries has fired the before hook of a
\* third, which has not completed.
C19_Witness ==
    \E r \in Threads :
        /\ ctx[r]
        /\ pc[r] = "ready"
        /\ pending[r] # NoQuery
        /\ made[r].after = 2
        /\ g[r].sql_query_count = 2

\* Thread r takes a step of maybe_dump_stack that comes before line 189: the
\* steps a suppressed call is made of.
BeforeUpdate(r) == pc[r] \in {"L177", "L185", "L186", "L187"} /\ pc'[r] # pc[r]

\* C20: frame of a suppressed dump.  A call of maybe_dump_stack suppressed by
\* the per-request cap returns from line 182 and one suppressed by the global
\* cap from line 188, and up to there the call writes nothing but
\* stack_dump_request_count: it leaves last_stack_dump, global_stack_dumps and
\* stack_dump_count as they are.
C20_SuppressedFrame ==
    [][\A r \in Threads :
          /\ BeforeUpdate(r) =>
                /\ last_stack_dump' = last_stack_dump
                /\ global_stack_dumps' = global_stack_dumps
                /\ emitted' = emitted
                /\ g' = [g EXCEPT ![r].stack_dump_request_count =
                                      IF pc[r] = "L177" /\ ctx[r] THEN @ + 1 ELSE @]
          /\ (pc'[r] # pc[r] /\ outcome'[r] = "request_cap") => pc[r] = "L177"
          /\ (pc'[r] # pc[r] /\ outcome'[r] = "global_cap") => pc[r] = "L187"]_vars

\* A request had a call suppressed by the global cap: the call was counted
\* as requested and the request's dumps are those it had emitted before.
C20_Witness ==
    \E r \in Threads :
        /\ ctx[r]
        /\ outcome[r] = "global_cap"
        /\ g[r].stack_dump_request_count = g[r].stack_dump_count + 1
        /\ global_stack_dumps > config.FLASK_SQLA_DEBUG_MAX_GLOBAL_DEBUG_STACKS

====
